---------------------------- MODULE Spec2Model ----------------------------
(***************************************************************************)
(* A model of en_transformer.py: the E(n)-equivariant attention block      *)
(* (EquivariantAttention), its construction, and the layer stack           *)
(* (EnTransformer.forward with Residual / PreNorm / FeedForward).          *)
(*                                                                         *)
(* Number representation.  Tensors are functions over index ranges, the    *)
(* batch axis is dropped (every operation of the source is independent per *)
(* batch element), and reals are integers:                                 *)
(*   - a coordinate is an integer number of units of 10^3, a point a pair; *)
(*   - a distance (the L2 norm of a displacement) is kept as its square,   *)
(*     which preserves order and equality of distances exactly;            *)
(*   - the learned parameters are fixed small integers, with the shapes    *)
(*     dim = 2, heads = 2, dim_head = 1, m_dim = 1, fourier_features = 0,  *)
(*     hidden widths 2, edge_dim = 1 when edges are passed;                *)
(*   - softmax weights are fractions <<numerator, denominator>>.           *)
(***************************************************************************)
EXTENDS Integers, Sequences, FiniteSets, TLC

\* Bounds of the model.
MaxN == 3
MaxDepth == 2

\* "no tensor passed" (None in the source): the empty tensor.
None == <<>>

exists(val) == val # None

Nodes == 1..MaxN

\* ------------------------------------------------------------------------
\* Input spaces
\* ------------------------------------------------------------------------

\* Points: the origin, a unit neighbour, and a point further than 1e5 away
\* (101 units of 10^3) from both.
Points == {<<0, 0>>, <<1, 0>>, <<0, 101>>}

\* An edge tensor (edge_dim = 1), not symmetric in (i, j).
SomeEdges(n) == [i \in 1..n |-> [j \in 1..n |-> (i + 2 * j) % 3]]

\* An adjacency matrix: the chain 1 - 2 - ... - n with self loops.
ChainAdj(n) == [i \in 1..n |-> [j \in 1..n |-> (i - j) \in {-1, 0, 1}]]

\* ------------------------------------------------------------------------
\* Vector helpers
\* ------------------------------------------------------------------------

VSub(a, b) == <<a[1] - b[1], a[2] - b[2]>>
VAdd(a, b) == <<a[1] + b[1], a[2] + b[2]>>
VScale(w, a) == <<w * a[1], w * a[2]>>
VZero == <<0, 0>>

RECURSIVE VSum(_)
VSum(s) == IF s = <<>> THEN VZero ELSE VAdd(Head(s), VSum(Tail(s)))

RECURSIVE Sum(_)
Sum(s) == IF s = <<>> THEN 0 ELSE Head(s) + Sum(Tail(s))

Dot(a, b) == Sum([c \in 1..Len(a) |-> a[c] * b[c]])

ReLU(x) == IF x > 0 THEN x ELSE 0

\* coors.norm(dim = -1), as the square of the norm.
Norm(v) == v[1] * v[1] + v[2] * v[2]

\* ------------------------------------------------------------------------
\* Learned parameters (fixed)
\* ------------------------------------------------------------------------

\* to_qkv: Linear(dim, heads * dim_head * 3, bias = False), one row per head.
to_qkv_w ==
    << [q |-> <<1, 0>>, k |-> <<0, 1>>, v |-> <<1, 1>>],
       [q |-> <<1, -1>>, k |-> <<1, 0>>, v |-> <<0, 2>>] >>

HeadIdx == 1..Len(to_qkv_w)

\* to_pos_emb: Linear(pos_dim, 2 dim_head), ReLU, Linear(2 dim_head, dim_head)
\* applied to the distance (fourier_features = 0: the raw distance only).
to_pos_emb(d) ==
    LET hid == <<ReLU(2 - d), ReLU(1 - d)>>
    IN  hid[1] + hid[2]

\* edge_mlp: Linear(edge_input_dim, 2 edge_input_dim), ReLU, Linear(., m_dim),
\* ReLU on xs, the edge input concatenated with the edge features:
\* <<x>> when edge_dim = 0, <<x, e>> when edge_dim = 1.
edge_mlp(xs) ==
    LET x   == xs[1]
        ee  == IF Len(xs) > 1 THEN xs[2] ELSE 0
        hid == <<ReLU(x + ee), ReLU(1 - x + 2 * ee)>>
    IN  ReLU(hid[1] + 2 * hid[2] - 1)

\* to_attn_mlp: Linear(m_dim, 4 m_dim), ReLU, Linear(4 m_dim, 1).
to_attn_mlp(m) ==
    LET hid == <<ReLU(m - 1), ReLU(2 - m)>>
    IN  hid[1] - hid[2]

\* coors_mlp without its last module: Linear(m_dim heads, 4 m_dim), ReLU,
\* Linear(4 m_dim, 1) on the per-head messages concatenated.
coors_mlp(ms) ==
    LET hid == <<ReLU(ms[1] - ms[2] + 1), ReLU(ms[2] - 1)>>
    IN  hid[1] - 2 * hid[2]

\* to_out: Linear(heads * dim_head, dim).
to_out(o) == <<o[1] + o[2] + 1, o[1] - o[2]>>


\* ------------------------------------------------------------------------
\* EquivariantAttention.forward
\*   inp = [n, feats, coors, edges, mask, adj_mat], num_nn and tie are the
\*   block's num_nearest_neighbors and the build's tie order in topk.
\* ------------------------------------------------------------------------

\* The fill value of the neighbour ranking, 1e5: 100 units of 10^3, squared
\* like every distance.
RankFill == 100 * 100

\* -torch.finfo(sim.dtype).max: a logit below every logit the networks give.
max_neg_value == -1000000000

\* exp(d) underflows to exactly 0 in float32 for d below about -103.
ExpUnderflow == -103

\* exp(d) for d <= 0 in thousandths, never 0 above the underflow point.
Exp(d) ==
    IF d < ExpUnderflow THEN 0
    ELSE IF d < -6 THEN 1
    ELSE <<2, 7, 18, 50, 135, 368, 1000>>[d + 7]

\* A tensor with its entries computed (a sequence).
Tensor(f) == f \o <<>>

\* Mutant of rel_coors: the position of node j, node i's not subtracted.
rel_coors_not_relative(inp, i, j) == VSub(VZero, inp.coors[j])

\* rel_coors = coors[i] - coors[j]
rel_coors(inp, i, j) == VSub(inp.coors[i], inp.coors[j])

rel_dist(inp, i, j) == Norm(rel_coors(inp, i, j))

\* nbhd_ranking, row i: rel_dist with the pairs that have a masked-out
\* endpoint filled with 1e5.
nbhd_ranking(inp, i) ==
    [j \in 1..inp.n |->
        IF exists(inp.mask) /\ ~(inp.mask[i] /\ inp.mask[j])
        THEN RankFill
        ELSE rel_dist(inp, i, j)]

\* row.topk(k, largest = False).indices: the k indices of the smallest
\* values in ascending order.  The order among equal values is not
\* specified by the library; tie is the order the build uses ("low": the
\* lower index first, "high": the higher index first).
topk(row, k, tie) ==
    LET Before(a, b) ==
            \/ row[a] < row[b]
            \/ row[a] = row[b] /\ (IF tie = "low" THEN a < b ELSE a > b)
        Pos(a) == Cardinality({b \in DOMAIN row : Before(b, a)}) + 1
    IN  [p \in 1..k |-> CHOOSE a \in DOMAIN row : Pos(a) = p]

nbhd_indices_of(inp, num_nn, tie) ==
    IF num_nn > 0
    THEN Tensor([i \in 1..inp.n |->
            Tensor(topk(Tensor(nbhd_ranking(inp, i)), num_nn, tie))])
    ELSE None

\* batched_index_select along the neighbour axis: column jj of row i is
\* node nb[i][jj]; without an index (dense mode) it is node jj.
batched_index_select(nb, i, jj) == IF exists(nb) THEN nb[i][jj] ELSE jj

\* Size of the neighbour axis (j in the source).
NbrAxis(inp, nb) == IF exists(nb) THEN Len(nb[1]) ELSE inp.n

\* q, k, v of node i for head h.
to_q(inp, h, i) == Dot(to_qkv_w[h].q, inp.feats[i])
to_k(inp, h, i) == Dot(to_qkv_w[h].k, inp.feats[i])
to_v(inp, h, i) == Dot(to_qkv_w[h].v, inp.feats[i])

rel_dist_pos_emb(inp, nb, i, jj) ==
    to_pos_emb(rel_dist(inp, i, batched_index_select(nb, i, jj)))

\* Mutant of value_of: the values are not gathered with the neighbour index.
value_of_not_gathered(inp, nb, h, i, jj) ==
    to_v(inp, h, jj) + rel_dist_pos_emb(inp, nb, i, jj)

\* v = v + rel_dist_pos_emb, on the gathered values.
value_of(inp, nb, h, i, jj) ==
    to_v(inp, h, batched_index_select(nb, i, jj)) + rel_dist_pos_emb(inp, nb, i, jj)

\* mask = q_mask * k_mask, k_mask gathered with the neighbour index.
pair_mask(inp, nb, i, jj) ==
    inp.mask[i] /\ inp.mask[batched_index_select(nb, i, jj)]

\* Mutant of m_ij: the edges are not gathered with the neighbour index.
m_ij_edges_not_gathered(inp, nb, h, i, jj) ==
    LET j == batched_index_select(nb, i, jj)
        x == (to_q(inp, h, i) - to_k(inp, h, j)) + rel_dist_pos_emb(inp, nb, i, jj)
        e == IF exists(inp.edges) THEN <<inp.edges[i][jj]>> ELSE <<>>
    IN  edge_mlp(<<x>> \o e)

\* m_ij = edge_mlp(cat((q - k) + rel_dist_pos_emb, edges)).
m_ij(inp, nb, h, i, jj) ==
    LET j == batched_index_select(nb, i, jj)
        x == (to_q(inp, h, i) - to_k(inp, h, j)) + rel_dist_pos_emb(inp, nb, i, jj)
        e == IF exists(inp.edges) THEN <<inp.edges[i][j]>> ELSE <<>>
    IN  edge_mlp(<<x>> \o e)

\* Mutant of coor_mask_fill: the fill is left out.
coor_mask_fill_left_out(inp, nb, i, jj, w) == w

\* coor_weights.masked_fill_(~coor_mask, 0.)
coor_mask_fill(inp, nb, i, jj, w) ==
    IF exists(inp.mask) /\ ~pair_mask(inp, nb, i, jj) THEN 0 ELSE w

\* coor_weights = coors_mlp(rearrange(m_ij, 'b h i j d -> b i j (h d)')),
\* then the fill; m is the tensor m_ij.
coor_weights_of(inp, nb, m, i, jj) ==
    coor_mask_fill(inp, nb, i, jj, coors_mlp([h \in HeadIdx |-> m[h][i][jj]]))

\* coors_out = einsum('b i j, b i j c -> b i c', coor_weights, rel_coors)
\* (rel_coors_norm is the identity: norm_rel_coors = False); cw is the
\* tensor coor_weights.
coors_out_of(inp, nb, cw, i) ==
    VSum([jj \in 1..NbrAxis(inp, nb) |->
            VScale(cw[i][jj], rel_coors(inp, i, batched_index_select(nb, i, jj)))])

\* Mutant of sim_mask_fill: masked logits are filled with 0.
sim_mask_fill_zero(inp, nb, i, jj, s) ==
    IF exists(inp.mask) /\ ~pair_mask(inp, nb, i, jj) THEN 0 ELSE s

\* sim.masked_fill_(~mask, max_neg_value)
sim_mask_fill(inp, nb, i, jj, s) ==
    IF exists(inp.mask) /\ ~pair_mask(inp, nb, i, jj) THEN max_neg_value ELSE s

sim_of(inp, nb, m, h, i, jj) ==
    sim_mask_fill(inp, nb, i, jj, to_attn_mlp(m[h][i][jj]))

Max(S) == CHOOSE x \in S : \A y \in S : y <= x

\* row.softmax(dim = -1): exp(x - max) / sum, each weight a fraction
\* <<numerator, denominator>>.
softmax(row) ==
    LET mx == Max({row[jj] : jj \in DOMAIN row})
        e  == Tensor([jj \in DOMAIN row |-> Exp(row[jj] - mx)])
        z  == Sum(e)
    IN  Tensor([jj \in DOMAIN row |-> <<e[jj], z>>])

attn_row(inp, nb, m, h, i) ==
    softmax(Tensor([jj \in 1..NbrAxis(inp, nb) |-> sim_of(inp, nb, m, h, i, jj)]))

\* einsum('b h i j, b h i j d -> b h i d', attn, v): the weighted sum of the
\* values, rounded down to the integer grid; a is the tensor attn.
head_out(inp, nb, a, h, i) ==
    Sum([jj \in 1..NbrAxis(inp, nb) |->
            a[h][i][jj][1] * value_of(inp, nb, h, i, jj)]) \div a[h][i][1][2]

out_of(inp, nb, a, i) == to_out([h \in HeadIdx |-> head_out(inp, nb, a, h, i)])

\* The whole forward pass.  topk raises when k exceeds the number of nodes.
EquivariantAttention(inp, num_nn, tie) ==
    IF num_nn > inp.n
    THEN [status |-> "RuntimeError"]
    ELSE LET nb == nbhd_indices_of(inp, num_nn, tie)
             N  == 1..inp.n
             J  == 1..NbrAxis(inp, nb)
             m  == Tensor([h \in HeadIdx |-> Tensor([i \in N |->
                      Tensor([jj \in J |-> m_ij(inp, nb, h, i, jj)])])])
             cw == Tensor([i \in N |-> Tensor([jj \in J |->
                      coor_weights_of(inp, nb, m, i, jj)])])
             a  == Tensor([h \in HeadIdx |-> Tensor([i \in N |->
                      attn_row(inp, nb, m, h, i)])])
         IN  [status       |-> "ok",
              nbhd_indices |-> nb,
              coor_weights |-> cw,
              attn         |-> a,
              out          |-> Tensor([i \in N |-> out_of(inp, nb, a, i)]),
              coors_out    |-> Tensor([i \in N |-> coors_out_of(inp, nb, cw, i)])]

\* ------------------------------------------------------------------------
\* The wrappers and the feed-forward sublayer
\* ------------------------------------------------------------------------

Sgn(x) == IF x > 0 THEN 1 ELSE IF x < 0 THEN -1 ELSE 0

\* nn.LayerNorm(dim) with its initial weight 1 and bias 0 on a feature
\* vector of dim = 2: (x - mean) / sqrt(var + eps) is +-1 on the two
\* components when they differ (up to eps) and 0 when they are equal.
LayerNorm(f) == <<Sgn(f[1] - f[2]), Sgn(f[2] - f[1])>>

\* F.gelu on the integer grid.
gelu(x) == IF x > 0 THEN x ELSE 0

\* FeedForward.net: Linear(dim, dim * 4 * 2), GEGLU, Dropout(0.),
\* Linear(dim * 4, dim), with hidden width 2.
FeedForward_net(f) ==
    LET x     == <<f[1] + f[2], f[1] - f[2] + 1>>
        gates == <<f[1] + 1, f[2]>>
        y     == <<x[1] * gelu(gates[1]), x[2] * gelu(gates[2])>>
    IN  <<y[1] - y[2], y[2] + 1>>

\* Mutant of FeedForward: the coordinates are returned as the delta.
FeedForward_returns_coors(inp) ==
    [status |-> "ok",
     out |-> [i \in 1..inp.n |-> FeedForward_net(inp.feats[i])],
     coors_out |-> inp.coors]

\* FeedForward.forward: (self.net(feats), 0); the scalar 0 broadcasts over
\* the coordinates in Residual's addition.
FeedForward(inp) ==
    [status |-> "ok",
     out |-> [i \in 1..inp.n |-> FeedForward_net(inp.feats[i])],
     coors_out |-> [i \in 1..inp.n |-> VZero]]

\* PreNorm.forward: the features are normalised, the coordinates are
\* passed on as they are.
PreNorm(inp) == [inp EXCEPT !.feats = [i \in 1..inp.n |-> LayerNorm(inp.feats[i])]]

\* Residual.forward on the result r of the wrapped module:
\* (feats + feats_out, coors + coors_delta).
Residual(inp, r) ==
    [feats |-> [i \in 1..inp.n |-> VAdd(inp.feats[i], r.out[i])],
     coors |-> [i \in 1..inp.n |-> VAdd(inp.coors[i], r.coors_out[i])]]

\* ------------------------------------------------------------------------
\* State
\* ------------------------------------------------------------------------

VARIABLES
    pc,                     \* position of the caller
    num_nearest_neighbors,  \* configuration
    only_sparse_neighbors,
    norm_coor_weights,
    depth,                  \* number of layers of the stack (0: a block alone)
    topk_tie,               \* the build's order among equal values in topk
    feats, coors,           \* arguments of the call; in the stack, the
    edges, mask, adj_mat,   \* running features and coordinates
    nbhd_indices,           \* tensors of the last forward pass of the block
    coor_weights, attn,
    out, coors_out,
    layer,                  \* layers of the stack completed
    coors_in,               \* the coordinates the call was given
    deltas                  \* the coordinate deltas of the attention sublayers

vars == <<pc, num_nearest_neighbors, only_sparse_neighbors, norm_coor_weights,
          depth, topk_tie, feats, coors, edges, mask, adj_mat,
          nbhd_indices, coor_weights, attn, out, coors_out,
          layer, coors_in, deltas>>

config == <<num_nearest_neighbors, only_sparse_neighbors, norm_coor_weights,
            depth, topk_tie>>

tensors == <<nbhd_indices, coor_weights, attn, out, coors_out>>

\* The arguments of the call as one record.
Input == [n |-> MaxN, feats |-> feats, coors |-> coors, edges |-> edges,
          mask |-> mask, adj_mat |-> adj_mat]

\* Feature tensors: all nodes different, all nodes alike.
FeatSets ==
    { [i \in Nodes |-> <<i % 3, (i + 1) % 2>>], [i \in Nodes |-> <<1, 0>>] }

\* Masks: none, and the first L nodes valid (padding at the end).
Masks == {None} \cup {[i \in Nodes |-> i <= L] : L \in 0..MaxN}

\* (only_sparse_neighbors, adj_mat, norm_coor_weights, edges) of a call.
Options ==
    { <<FALSE, None, FALSE, None>>,
      <<FALSE, None, FALSE, SomeEdges(MaxN)>>,
      <<TRUE, ChainAdj(MaxN), FALSE, None>>,
      <<TRUE, None, FALSE, SomeEdges(MaxN)>>,
      <<FALSE, None, TRUE, None>> }

InitCall(P) ==
    /\ pc = "new"
    /\ num_nearest_neighbors \in 0..MaxN
    /\ topk_tie \in IF num_nearest_neighbors > 0 THEN {"low", "high"} ELSE {"low"}
    /\ \E o \in Options :
          /\ only_sparse_neighbors = o[1]
          /\ adj_mat = o[2]
          /\ norm_coor_weights = o[3]
          /\ edges = o[4]
    /\ feats \in FeatSets
    /\ coors \in [Nodes -> P]
    /\ mask \in Masks
    /\ nbhd_indices = None
    /\ coor_weights = None
    /\ attn = None
    /\ out = None
    /\ coors_out = None
    /\ layer = 0
    /\ coors_in = coors
    /\ deltas = <<>>

\* A call of a block alone.
Init == InitCall(Points) /\ depth = 0

\* EquivariantAttention.__init__ (once per layer in EnTransformer.__init__):
\* the last module of coors_mlp is nn.TanH() when norm_coor_weights is set;
\* torch.nn has no attribute TanH (the module is nn.Tanh), so the lookup
\* raises AttributeError.  Otherwise it is nn.Identity().
Construct ==
    /\ pc = "new"
    /\ pc' = IF norm_coor_weights THEN "AttributeError" ELSE "constructed"
    /\ UNCHANGED <<config, feats, coors, edges, mask, adj_mat, tensors,
                   layer, coors_in, deltas>>

\* The block's forward pass on inp, with the assertion that opens it.
BlockForward(inp) ==
    IF only_sparse_neighbors /\ ~exists(inp.adj_mat)
    THEN [status |-> "AssertionError"]
    ELSE EquivariantAttention(inp, num_nearest_neighbors, topk_tie)

\* The tensors of a forward pass that returned r.
Record(r) ==
    /\ nbhd_indices' = r.nbhd_indices
    /\ coor_weights' = r.coor_weights
    /\ attn' = r.attn
    /\ out' = r.out
    /\ coors_out' = r.coors_out

\* EquivariantAttention.forward on the arguments.
Forward ==
    /\ pc = "constructed"
    /\ LET r == BlockForward(Input)
       IN  IF r.status # "ok"
           THEN pc' = r.status /\ UNCHANGED tensors
           ELSE pc' = "done" /\ Record(r)
    /\ UNCHANGED <<config, feats, coors, edges, mask, adj_mat,
                   layer, coors_in, deltas>>

Next == Construct \/ Forward

Spec == Init /\ [][Next]_vars

\* Calls of a block alone on nodes that are all closer to each other than
\* 1e5: the corners of a scalene triangle, shared by several nodes or not.
NearPoints == {<<0, 0>>, <<1, 0>>, <<0, 2>>}

InitNear == InitCall(NearPoints) /\ depth = 0

SpecNear == InitNear /\ [][Next]_vars

\* ------------------------------------------------------------------------
\* EnTransformer.forward (no token embedding): depth layers, each the
\* attention sublayer Residual(PreNorm(EquivariantAttention)) followed by
\* the feed-forward sublayer Residual(PreNorm(FeedForward)).
\* ------------------------------------------------------------------------

\* Points of the stack's inputs.
StackPoints == {<<0, 0>>, <<1, 2>>}

InitStack == InitCall(StackPoints) /\ depth \in 1..MaxDepth

\* attn(feats, coors, edges = edges, mask = mask, adj_mat = adj_mat)
AttnSublayer ==
    /\ pc \in {"constructed", "attn"}
    /\ layer < depth
    /\ LET r == BlockForward(PreNorm(Input))
       IN  IF r.status # "ok"
           THEN /\ pc' = r.status
                /\ UNCHANGED <<feats, coors, tensors, deltas>>
           ELSE /\ pc' = "ff"
                /\ Record(r)
                /\ feats' = Residual(Input, r).feats
                /\ coors' = Residual(Input, r).coors
                /\ deltas' = Append(deltas, r.coors_out)
    /\ UNCHANGED <<config, edges, mask, adj_mat, layer, coors_in>>

\* ff(feats, coors)
FFSublayer ==
    /\ pc = "ff"
    /\ LET r == FeedForward(PreNorm(Input))
       IN  /\ feats' = Residual(Input, r).feats
           /\ coors' = Residual(Input, r).coors
    /\ layer' = layer + 1
    /\ pc' = IF layer + 1 = depth THEN "return" ELSE "attn"
    /\ UNCHANGED <<config, edges, mask, adj_mat, tensors, coors_in, deltas>>

NextStack == Construct \/ AttnSublayer \/ FFSublayer

SpecStack == InitStack /\ [][NextStack]_vars

\* ------------------------------------------------------------------------
\* Transformations of a call's arguments, used to state the claims
\* ------------------------------------------------------------------------

\* A quarter turn about the origin, and r of them.
Rot(v) == <<-v[2], v[1]>>

RECURSIVE RotN(_, _)
RotN(v, r) == IF r = 0 THEN v ELSE RotN(Rot(v), r - 1)

\* Rigid motions <<r, t>>: a pure translation, a pure rotation, and
\* rotations followed by a translation.
Motions == {<<0, <<2, -3>>>>, <<1, <<0, 0>>>>, <<2, <<2, -3>>>>, <<3, <<-1, 4>>>>}

\* Displacements of the masked-out nodes.
Shifts == {<<2, -3>>, <<-100, 7>>}

\* The arguments with every node rotated by r quarter turns, then moved by t.
Moved(inp, r, t) ==
    [inp EXCEPT !.coors = [i \in 1..inp.n |-> VAdd(RotN(inp.coors[i], r), t)]]

\* The arguments with the masked-out nodes alone moved by t.
MovedInvalid(inp, t) ==
    [inp EXCEPT !.coors = [i \in 1..inp.n |->
        IF inp.mask[i] THEN inp.coors[i] ELSE VAdd(inp.coors[i], t)]]

Perms(n) == {p \in [1..n -> 1..n] : \A a, b \in 1..n : p[a] = p[b] => a = b}

\* Every per-node and per-pair tensor reindexed: new node a is old node p[a].
Reindexed(inp, n, p) ==
    [n       |-> n,
     feats   |-> [a \in 1..n |-> inp.feats[p[a]]],
     coors   |-> [a \in 1..n |-> inp.coors[p[a]]],
     edges   |-> IF exists(inp.edges)
                 THEN [a \in 1..n |-> [b \in 1..n |-> inp.edges[p[a]][p[b]]]]
                 ELSE None,
     mask    |-> IF exists(inp.mask) THEN [a \in 1..n |-> inp.mask[p[a]]] ELSE None,
     adj_mat |-> IF exists(inp.adj_mat)
                 THEN [a \in 1..n |-> [b \in 1..n |-> inp.adj_mat[p[a]][p[b]]]]
                 ELSE None]

Permuted(inp, p) == Reindexed(inp, inp.n, p)

\* Old index of node a once node r is taken out.
Skip(r, a) == IF a < r THEN a ELSE a + 1

\* The arguments with node r removed from every tensor.
Removed(inp, r) == Reindexed(inp, inp.n - 1, [a \in 1..(inp.n - 1) |-> Skip(r, a)])

\* Node in column jj of row i of the last forward pass.
Nbr(i, jj) == batched_index_select(nbhd_indices, i, jj)

Cols == 1..NbrAxis(Input, nbhd_indices)

Selected(i) == {Nbr(i, jj) : jj \in Cols}

Done == pc = "done"

\* ------------------------------------------------------------------------
\* C1
\* ------------------------------------------------------------------------

\* C1: for every rigid motion of the input coordinates (r quarter turns,
\* then a translation t, over Motions), the forward pass returns the same feature delta
\* and the coordinate delta rotated by the same r; a pure translation
\* (r = 0) leaves both unchanged.
Theorem_C1 ==
    Done =>
        \A mo \in Motions :
            LET m == EquivariantAttention(Moved(Input, mo[1], mo[2]),
                                          num_nearest_neighbors, topk_tie)
            IN  /\ m.out = out
                /\ m.coors_out = [i \in Nodes |-> RotN(coors_out[i], mo[1])]

\* A forward pass in top-k mode with a coordinate delta that is not zero (so
\* that a quarter turn changes it).
Witness_C1 ==
    /\ Done
    /\ num_nearest_neighbors \in 1..(MaxN - 1)
    /\ \E i \in Nodes : coors_out[i] # VZero

\* ------------------------------------------------------------------------
\* C2
\* ------------------------------------------------------------------------

\* C2 as stated: with a mask, after the softmax the attention weight of
\* every pair with an invalid node as query or as neighbour is 0, in every
\* head, rows of invalid queries included.
Original_C2 ==
    Done /\ exists(mask) =>
        \A h \in HeadIdx, i \in Nodes, jj \in Cols :
            ~(mask[i] /\ mask[Nbr(i, jj)]) => attn[h][i][jj][1] = 0

\* C2 amended: with a mask, in every row whose query node is valid the
\* attention weight of every invalid neighbour is exactly 0, in every head;
\* in a row whose query node is invalid every logit is filled with the same
\* value, and the softmax gives every column the same weight 1 / j, not 0.
Theorem_C2 ==
    Done /\ exists(mask) =>
        \A h \in HeadIdx, i \in Nodes :
            IF mask[i]
            THEN \A jj \in Cols : ~mask[Nbr(i, jj)] => attn[h][i][jj][1] = 0
            ELSE \A jj \in Cols :
                    /\ attn[h][i][jj][1] > 0
                    /\ attn[h][i][jj][2] = Cardinality(Cols) * attn[h][i][jj][1]

\* A masked forward pass with a valid query that has an invalid neighbour
\* in its row, and an invalid query.
Witness_C2 ==
    /\ Done
    /\ exists(mask)
    /\ \E i \in Nodes, jj \in Cols : mask[i] /\ ~mask[Nbr(i, jj)]
    /\ \E i \in Nodes : ~mask[i]

\* ------------------------------------------------------------------------
\* C3
\* ------------------------------------------------------------------------

\* The forward pass on inp agrees, on every valid node left, with the last
\* forward pass once masked-out node r is taken out of the arguments.
AgreesWithoutNode(r) ==
    LET q == BlockForward(Removed(Input, r))
    IN  /\ q.status = "ok"
        /\ \A a \in 1..(MaxN - 1) :
              mask[Skip(r, a)] =>
                  /\ q.out[a] = out[Skip(r, a)]
                  /\ q.coors_out[a] = coors_out[Skip(r, a)]

\* C3: with a mask, in dense mode and in top-k mode, the forward pass on the
\* arguments with one masked-out node removed gives every remaining valid
\* node the feature delta and the coordinate delta it has in the padded
\* call.  Stated for k < N only: with k = N the shrunk call has fewer nodes
\* than k and topk raises.
Original_C3 ==
    Done /\ exists(mask) /\ num_nearest_neighbors < MaxN =>
        \A r \in Nodes : ~mask[r] => AgreesWithoutNode(r)

\* ------------------------------------------------------------------------
\* C4
\* ------------------------------------------------------------------------

\* The forward pass on the arguments permuted by p returns the last forward
\* pass's deltas permuted by p.
Equivariant(p) ==
    LET q == EquivariantAttention(Permuted(Input, p), num_nearest_neighbors,
                                  topk_tie)
    IN  /\ q.out = [a \in Nodes |-> out[p[a]]]
        /\ q.coors_out = [a \in Nodes |-> coors_out[p[a]]]

\* C4 as stated: for every permutation of the node order applied to all
\* arguments the deltas are permuted alike, in dense and in top-k mode,
\* equidistant candidate neighbours included.
Original_C4 == Done => \A p \in Perms(MaxN) : Equivariant(p)

\* No row of the neighbour ranking has a selected and an unselected node of
\* equal rank (the k-th and (k+1)-th smallest values differ).
NoBoundaryTie ==
    \A i \in Nodes :
        LET row == nbhd_ranking(Input, i)
        IN  \A a \in Selected(i), b \in Nodes \ Selected(i) : row[a] < row[b]

\* C4 amended: for every permutation of the node order applied to all
\* arguments the deltas are permuted alike, in dense mode, and in top-k mode
\* when no node has a tie at the selection boundary, that is when its k-th
\* and (k+1)-th smallest ranking values (after the fill of masked pairs)
\* differ.
Theorem_C4 ==
    Done /\ (num_nearest_neighbors = 0 \/ NoBoundaryTie) =>
        \A p \in Perms(MaxN) : Equivariant(p)

\* A top-k forward pass with fewer neighbours than nodes, no tie at the
\* boundary, a mask, edges, and deltas that differ between nodes.
Witness_C4 ==
    /\ Done
    /\ num_nearest_neighbors \in 1..(MaxN - 1)
    /\ NoBoundaryTie
    /\ exists(edges)
    /\ \E i, j \in Nodes : out[i] # out[j] /\ coors_out[i] # coors_out[j]

\* ------------------------------------------------------------------------
\* C5
\* ------------------------------------------------------------------------

\* C5: with num_nearest_neighbors = N the forward pass returns the deltas
\* of dense mode, and every row of the top-k index holds every node once.
Theorem_C5 ==
    Done /\ num_nearest_neighbors = MaxN =>
        LET d == EquivariantAttention(Input, 0, topk_tie)
        IN  /\ d.out = out
            /\ d.coors_out = coors_out
            /\ \A i \in Nodes : Selected(i) = Nodes

\* A forward pass with k = N whose index is not the identity on some row,
\* with a mask and edges.
Witness_C5 ==
    /\ Done
    /\ num_nearest_neighbors = MaxN
    /\ exists(mask) /\ exists(edges)
    /\ \E i \in Nodes, jj \in Cols : Nbr(i, jj) # jj
    /\ \E i \in Nodes : coors_out[i] # VZero

\* ------------------------------------------------------------------------
\* C6
\* ------------------------------------------------------------------------

\* The coordinate deltas recorded so far, summed per node.
SumOfDeltas(ds) ==
    [i \in Nodes |-> VSum([l \in 1..Len(ds) |-> ds[l][i]])]

\* One step of the stack, as C6 describes it.
StepOfC6 ==
    /\ pc \in {"constructed", "attn"} /\ pc' = "ff" =>
          LET normed == [Input EXCEPT !.feats = [i \in Nodes |-> LayerNorm(feats[i])]]
              r == EquivariantAttention(normed, num_nearest_neighbors, topk_tie)
          IN  /\ feats' = [i \in Nodes |-> VAdd(feats[i], r.out[i])]
              /\ coors' = [i \in Nodes |-> VAdd(coors[i], r.coors_out[i])]
    /\ pc = "ff" =>
          /\ coors' = coors
          /\ feats' = [i \in Nodes |->
                         VAdd(feats[i], FeedForward_net(LayerNorm(feats[i])))]
    /\ pc' = "return" =>
          /\ Len(deltas') = depth
          /\ coors' = [i \in Nodes |-> VAdd(coors_in[i], SumOfDeltas(deltas')[i])]

\* C6: in every layer the attention sublayer adds the block's feature delta
\* (computed on the normalised features and the unnormalised coordinates) to
\* the features and its coordinate delta to the coordinates, the
\* feed-forward sublayer changes the features by its own residual and
\* leaves the coordinates as they are, and the coordinates returned are the
\* input coordinates plus the sum of the depth coordinate deltas.
Theorem_C6 == [][StepOfC6]_vars

\* A stack of at least two layers that has returned, with coordinates moved
\* by the last layer too and features changed by the feed-forward sublayer.
Witness_C6 ==
    /\ pc = "return"
    /\ depth > 1
    /\ Len(deltas) = depth
    /\ \E i \in Nodes : deltas[depth][i] # VZero /\ deltas[1][i] # VZero
    /\ \E i \in Nodes : FeedForward_net(LayerNorm(feats[i])) # VZero

\* ------------------------------------------------------------------------
\* C7
\* ------------------------------------------------------------------------

\* C7: with a mask, the coordinate weight of every pair with an invalid
\* endpoint is 0; the coordinate delta of an invalid node is the zero
\* vector, and the coordinate delta of a valid node does not change when
\* the invalid nodes are moved.
Theorem_C7 ==
    Done /\ exists(mask) =>
        /\ \A i \in Nodes, jj \in Cols :
              ~(mask[i] /\ mask[Nbr(i, jj)]) => coor_weights[i][jj] = 0
        /\ \A i \in Nodes : ~mask[i] => coors_out[i] = VZero
        /\ \A t \in Shifts :
              LET q == EquivariantAttention(MovedInvalid(Input, t),
                                            num_nearest_neighbors, topk_tie)
              IN  \A i \in Nodes : mask[i] => q.coors_out[i] = coors_out[i]

\* A masked forward pass in which a valid node has an invalid neighbour in
\* its row, away from it, and a coordinate delta that is not zero.
Witness_C7 ==
    /\ Done
    /\ exists(mask)
    /\ \E i \in Nodes, jj \in Cols :
          /\ mask[i] /\ ~mask[Nbr(i, jj)]
          /\ coors[i] # coors[Nbr(i, jj)]
          /\ coors_out[i] # VZero

\* ------------------------------------------------------------------------
\* C8
\* ------------------------------------------------------------------------

\* C8: in top-k mode with a mask, for every valid node every pair with an
\* invalid endpoint ranks after every valid pair whatever the distances,
\* and valid pairs rank by distance: an invalid node is selected only when
\* the node has fewer than k valid candidates.
Original_C8 ==
    Done /\ exists(mask) /\ num_nearest_neighbors > 0 =>
        \A i \in Nodes :
            mask[i] =>
                /\ \A a \in Selected(i), b \in Nodes \ Selected(i) :
                      /\ mask[b] => mask[a]
                      /\ mask[a] /\ mask[b] =>
                            rel_dist(Input, i, a) <= rel_dist(Input, i, b)
                /\ (\E a \in Selected(i) : ~mask[a]) =>
                      Cardinality({j \in Nodes : mask[j]}) < num_nearest_neighbors

\* ------------------------------------------------------------------------
\* C9
\* ------------------------------------------------------------------------

\* C9: with only_sparse_neighbors, an adjacency matrix and k = 0, a pair
\* (i, j) whose adjacency entry is false contributes nothing to the deltas
\* of node i: its attention weight is 0 in every head and its weighted
\* displacement is the zero vector.
Original_C9 ==
    Done /\ only_sparse_neighbors /\ exists(adj_mat)
         /\ num_nearest_neighbors = 0 =>
        \A i, j \in Nodes :
            ~adj_mat[i][j] =>
                /\ \A h \in HeadIdx : attn[h][i][j][1] = 0
                /\ VScale(coor_weights[i][j], rel_coors(Input, i, j)) = VZero

\* ------------------------------------------------------------------------
\* C10
\* ------------------------------------------------------------------------

\* C10: with norm_coor_weights the block can be constructed and every
\* coordinate weight of a forward pass lies in [-1, 1].
Original_C10 ==
    norm_coor_weights =>
        /\ pc # "AttributeError"
        /\ Done => \A i \in Nodes, jj \in Cols :
                      coor_weights[i][jj] \in -1..1

=============================================================================
